---- MODULE Spec2Model ----
(***************************************************************************)
(* Model of src/lib/fema-shelters.ts: fetchFEMAShelters(), the single      *)
(* fetch -> validate -> filter -> map -> filter pipeline that normalises   *)
(* a GeoJSON FeatureCollection into Shelter records.                       *)
(*                                                                         *)
(* JSON / JavaScript values are tagged records.  A scalar is               *)
(*   [t, n, s]  with t in undefined | null | number | string | object      *)
(* (n is the numeric value, s the string value; the unused one is 0 / ""). *)
(* A value that may be an array additionally has a field  a  holding the   *)
(* members (t = "array").  Numbers are integers (degrees, head counts).    *)
(***************************************************************************)
EXTENDS Integers, Sequences, FiniteSets, TLC

VARIABLES pc, requests, res, bodyUsed, geojson, filtered, mapped, result, err

vars == <<pc, requests, res, bodyUsed, geojson, filtered, mapped, result, err>>

(***************************************************************************)
(* Bounds of the model.                                                    *)
(***************************************************************************)
\* longest features array drawn from FeedFeatures
MaxFeatures == 3
\* longest features array drawn from RecordFeatures
MaxRecordFeatures == 1
\* longest coordinates array
MaxCoordLen == 3
\* milliseconds the wall clock may advance during one pass of the map
MaxClock == 1

(***************************************************************************)
(* JavaScript values.                                                      *)
(***************************************************************************)
Undef == [t |-> "undefined", n |-> 0, s |-> ""]
Null == [t |-> "null", n |-> 0, s |-> ""]
Num(k) == [t |-> "number", n |-> k, s |-> ""]
Str(x) == [t |-> "string", n |-> 0, s |-> x]
Obj == [t |-> "object", n |-> 0, s |-> ""]

Arr(members) == [t |-> "array", n |-> 0, s |-> "", a |-> members]
NoArr(v) == [t |-> v.t, n |-> v.n, s |-> v.s, a |-> <<>>]

\* x == null in the JavaScript sense: the operand test of ?? and ?.
Nullish(v) == v.t \in {"undefined", "null"}

\* ToBoolean of a value, as ! and filter(Boolean) apply it
Truthy(v) ==
  CASE v.t \in {"undefined", "null"} -> FALSE
    [] v.t = "number" -> v.n # 0
    [] v.t = "string" -> v.s # ""
    [] OTHER -> TRUE

\* a ?? b
Coalesce(v, d) == IF Nullish(v) THEN d ELSE v

\* a === b on scalars; two distinct objects are never identical
StrictEq(v, w) ==
  /\ v.t = w.t
  /\ v.t # "object"
  /\ v.n = w.n
  /\ v.s = w.s

\* Array.isArray(v)
IsArray(v) == v.t = "array"

\* typeof v
TypeOf(v) ==
  CASE v.t = "undefined" -> "undefined"
    [] v.t = "number" -> "number"
    [] v.t = "string" -> "string"
    [] OTHER -> "object"

(***************************************************************************)
(* The input format: features, their geometry and their properties.        *)
(***************************************************************************)
\* the object literal {} : every property reads as undefined
EmptyProps ==
  [t |-> "object", shelter_id |-> Undef, shelter_name |-> Undef,
   address |-> Undef, city |-> Undef, state |-> Undef, zip |-> Undef,
   shelter_status |-> Undef, total_population |-> Undef,
   ada_compliant |-> Undef, wheelchair_accessible |-> Undef,
   pet_accommodations_code |-> Undef, latitude |-> Undef,
   longitude |-> Undef]

PropsUndef == [EmptyProps EXCEPT !.t = "undefined"]
PropsNull == [EmptyProps EXCEPT !.t = "null"]

GeomObj(ty, coords) == [t |-> "object", type |-> ty, coordinates |-> coords]
GeomUndef == [t |-> "undefined", type |-> Undef, coordinates |-> NoArr(Undef)]
GeomNull == [t |-> "null", type |-> Undef, coordinates |-> NoArr(Undef)]

Feature(g, p) == [t |-> "object", geometry |-> g, properties |-> p]
\* elements of features that are not objects
NullElement == [t |-> "null", geometry |-> GeomUndef, properties |-> PropsUndef]
NumberElement == [t |-> "number", geometry |-> GeomUndef, properties |-> PropsUndef]

\* o.name on a properties value that is not nullish
GetProp(p, name) == IF p.t = "object" THEN p[name] ELSE Undef

(***************************************************************************)
(* The output format.                                                      *)
(***************************************************************************)
SOURCE == "FEMA / ARC (National Shelter System)"

\* decimal digits of n, left-padded with zeros to width w
Pad(n, w) ==
  LET d == ToString(n)
      RECURSIVE Zeros(_)
      Zeros(k) == IF k <= 0 THEN "" ELSE "0" \o Zeros(k - 1)
  IN Zeros(w - Len(d)) \o d

\* the proleptic Gregorian date of a day number (days since 1970-01-01)
CivilFromDays(days) ==
  LET z == days + 719468
      era == z \div 146097
      doe == z - era * 146097
      yoe == (doe - doe \div 1460 + doe \div 36524 - doe \div 146096) \div 365
      doy == doe - (365 * yoe + yoe \div 4 - yoe \div 100)
      mp == (5 * doy + 2) \div 153
      m == IF mp < 10 THEN mp + 3 ELSE mp - 9
  IN [year |-> yoe + era * 400 + (IF m <= 2 THEN 1 ELSE 0),
      month |-> m,
      day |-> doy - (153 * mp + 2) \div 5 + 1]

\* new Date(ms).toISOString(): YYYY-MM-DDTHH:mm:ss.sssZ in UTC, for a time
\* value ms (milliseconds since the epoch) in the years 0000 to 9999
ToISOString(ms) ==
  LET date == CivilFromDays(ms \div 86400000)
      rest == ms % 86400000
  IN Pad(date.year, 4) \o "-" \o Pad(date.month, 2) \o "-" \o Pad(date.day, 2)
       \o "T" \o Pad(rest \div 3600000, 2)
       \o ":" \o Pad((rest \div 60000) % 60, 2)
       \o ":" \o Pad((rest \div 1000) % 60, 2)
       \o "." \o Pad(rest % 1000, 3) \o "Z"

\* the null that the map callback returns for a dropped feature
NullShelter ==
  [t |-> "null", shelter_id |-> Undef, name |-> Undef, address |-> Undef,
   city |-> Undef, state |-> Undef, zip |-> Undef, status |-> Undef,
   latitude |-> Undef, longitude |-> Undef, total_population |-> Undef,
   ada_compliant |-> Undef, wheelchair_accessible |-> Undef,
   pet_accommodations |-> Undef, source |-> Undef, last_updated |-> Undef]

(***************************************************************************)
(* The response of the remote endpoint.                                    *)
(***************************************************************************)
ARCGIS_SHELTERS_URL ==
  "https://gis.fema.gov/arcgis/rest/services/NSS/OpenShelters/FeatureServer/0/query?where=1%3D1&outFields=*&returnGeometry=true&f=geojson"

\* a parsed top-level JSON value; features is meaningful when t = "object"
Payload(fs) == [t |-> "object", features |-> fs]
PrimitivePayload(ty) == [t |-> ty, features |-> NoArr(Undef)]

\* a body is either JSON text (valid, json is its parsed value) or other text
\* (raw is the text itself)
JsonBody(json) == [valid |-> TRUE, raw |-> "", json |-> json]
TextBody(raw) == [valid |-> FALSE, raw |-> raw, json |-> PrimitivePayload("undefined")]

Response(ok, text, body) == [ok |-> ok, statusText |-> text, body |-> body]

NoResponse == Response(FALSE, "", TextBody(""))
NoError == [name |-> "", message |-> <<>>]

(***************************************************************************)
(* fetchFEMAShelters, expression by expression.                            *)
(***************************************************************************)
\* the status check left out
NotOkNever(r) == FALSE

\* !res.ok
NotOk(r) == ~r.ok

\* new Error(`Failed to fetch FEMA shelters: ${res.statusText}`); the
\* message is the template literal's parts in order
FetchError(r) ==
  [name |-> "Error", message |-> <<"Failed to fetch FEMA shelters: ", r.statusText>>]

\* the rejection of fetch() itself (no response at all)
NetworkError == [name |-> "TypeError", message |-> <<"fetch failed">>]

\* the message of JSON.parse on a text that is not JSON: the input ends
\* before the value is complete, or a token cannot start or continue one
JsonParseMessage(raw) ==
  CASE raw = "" -> "Unexpected end of JSON input"
    [] raw = "{\"features\":[" -> "Unexpected end of JSON input"
    [] raw = "not json" -> "Unexpected token 'o', \"not json\" is not valid JSON"

\* the rejection of res.json() on a body that is not JSON
ParseError(body) == [name |-> "SyntaxError", message |-> <<JsonParseMessage(body.raw)>>]

\* new Error('Invalid GeoJSON response from ArcGIS')
InvalidFormatError ==
  [name |-> "Error", message |-> <<"Invalid GeoJSON response from ArcGIS">>]

\* reading f.geometry when f is null
NullElementError ==
  [name |-> "TypeError",
   message |-> <<"Cannot read properties of null (reading 'geometry')">>]

\* geojson?.features
FeaturesOf(json) ==
  IF Nullish(json) THEN NoArr(Undef)
  ELSE IF json.t = "object" THEN json.features
  ELSE NoArr(Undef)

\* the shape check without Array.isArray
InvalidGeoJSONFalsyOnly(json) == ~Truthy(FeaturesOf(json))

\* !geojson?.features || !Array.isArray(geojson.features)
InvalidGeoJSON(json) ==
  \/ ~Truthy(FeaturesOf(json))
  \/ ~IsArray(FeaturesOf(json))

\* f.geometry, for an element on which the read does not throw
GeometryOf(f) == IF f.t = "object" THEN f.geometry ELSE GeomUndef

\* g?.type
OptionalType(g) == IF Nullish(g) THEN Undef ELSE g.type

\* the filter requiring a geometry of any type
IsPointFeatureAnyType(f) == ~Nullish(GeometryOf(f))

\* the first filter's callback: f.geometry?.type === 'Point'
IsPointFeature(f) == StrictEq(OptionalType(GeometryOf(f)), Str("Point"))

\* the callback throws on an element that is null: f.geometry of null
CallbackThrows(f) == Nullish(f)

\* geojson.features.filter(...) completes only if no callback throws
FilterThrows(features) == \E i \in 1..Len(features) : CallbackThrows(features[i])

PointFeatures(features) == SelectSeq(features, IsPointFeature)

\* const p = f.properties ?? {}
PropertiesOf(f) == IF Nullish(f.properties) THEN EmptyProps ELSE f.properties

\* !Array.isArray(coords) || coords.length !== 2
BadCoords(coords) == ~IsArray(coords) \/ Len(coords.a) # 2

\* the pair read in latitude-first order
LatitudeOfFirst(coords) == coords.a[1]

\* const [longitude, latitude] = coords
LongitudeOf(coords) == coords.a[1]

LatitudeOf(coords) == coords.a[2]

\* the default applied with || instead of ??
NameOfFalsy(p) ==
  IF Truthy(GetProp(p, "shelter_name")) THEN GetProp(p, "shelter_name")
  ELSE Str("Unknown Shelter")

\* name: p.shelter_name ?? 'Unknown Shelter'
NameOf(p) == Coalesce(GetProp(p, "shelter_name"), Str("Unknown Shelter"))

\* address / city / state / zip: p.x ?? ''
TextOf(p, field) == Coalesce(GetProp(p, field), Str(""))

\* every present status other than OPEN read as CLOSED
StatusOfTwoWay(p) ==
  IF StrictEq(GetProp(p, "shelter_status"), Str("OPEN")) THEN Str("OPEN")
  ELSE IF Nullish(GetProp(p, "shelter_status")) THEN Str("UNKNOWN")
  ELSE Str("CLOSED")

\* status: OPEN / CLOSED by strict equality, UNKNOWN otherwise
StatusOf(p) ==
  IF StrictEq(GetProp(p, "shelter_status"), Str("OPEN")) THEN Str("OPEN")
  ELSE IF StrictEq(GetProp(p, "shelter_status"), Str("CLOSED")) THEN Str("CLOSED")
  ELSE Str("UNKNOWN")

\* the head count passed through with ?? null
TotalPopulationOfAny(p) == Coalesce(GetProp(p, "total_population"), Null)

\* total_population: typeof p.total_population === 'number' ? it : null
TotalPopulationOf(p) ==
  IF TypeOf(GetProp(p, "total_population")) = "number"
  THEN GetProp(p, "total_population")
  ELSE Null

\* the map callback; ms is the clock reading of new Date()
ToShelter(f, ms) ==
  LET coords == f.geometry.coordinates
      p == PropertiesOf(f)
  IN IF BadCoords(coords) THEN NullShelter
     ELSE [t |-> "object",
           shelter_id |-> GetProp(p, "shelter_id"),
           name |-> NameOf(p),
           address |-> TextOf(p, "address"),
           city |-> TextOf(p, "city"),
           state |-> TextOf(p, "state"),
           zip |-> TextOf(p, "zip"),
           status |-> StatusOf(p),
           latitude |-> LatitudeOf(coords),
           longitude |-> LongitudeOf(coords),
           total_population |-> TotalPopulationOf(p),
           ada_compliant |-> Coalesce(GetProp(p, "ada_compliant"), Null),
           wheelchair_accessible |-> Coalesce(GetProp(p, "wheelchair_accessible"), Null),
           pet_accommodations |-> Coalesce(GetProp(p, "pet_accommodations_code"), Null),
           source |-> Str(SOURCE),
           last_updated |-> Str(ToISOString(ms))]

\* .map(...) over the Point features; clock[i] is the reading at element i
MapShelters(features, clock) ==
  [i \in 1..Len(features) |-> ToShelter(features[i], clock[i])]

\* the final filter left out
CompactNothing(ms) == ms

\* .filter(Boolean): a record is an object (truthy), a dropped one is null
IsShelter(m) == Truthy(m)

Compact(ms) == SelectSeq(ms, IsShelter)

(***************************************************************************)
(* The inputs of the model: what the remote endpoint may answer.           *)
(***************************************************************************)
CoordMembers == {Num(-80), Num(25), Null, Str("25")}

\* every pair over CoordMembers, and arrays of the other lengths
CoordArrays ==
  {Arr(<<x, y>>) : x \in CoordMembers, y \in CoordMembers}
    \cup {Arr([i \in 1..k |-> Num(-80)]) : k \in (0..MaxCoordLen) \ {2}}

CoordValues == CoordArrays \cup {NoArr(Undef), NoArr(Null), NoArr(Str("ab"))}

Pair(x, y) == Arr(<<Num(x), Num(y)>>)
PointAt(x, y) == GeomObj(Str("Point"), Pair(x, y))

Geometries ==
  {GeomObj(Str("Point"), c) : c \in CoordValues}
    \cup {GeomUndef, GeomNull,
          GeomObj(Str("Polygon"), Arr(<<Obj>>)),
          GeomObj(Str("Polygon"), Pair(-80, 25)),
          GeomObj(Str("point"), Pair(-80, 25)),
          GeomObj(Undef, Pair(-80, 25))}

\* the properties of the scenario of the specification
BaseProps ==
  [EmptyProps EXCEPT !.shelter_id = Num(1), !.shelter_name = Str("Test"),
                     !.shelter_status = Str("OPEN")]

WithId(k) == [BaseProps EXCEPT !.shelter_id = Num(k)]

TextProps ==
  {[BaseProps EXCEPT !.shelter_name = nm, !.address = ad, !.city = ci,
                     !.state = st, !.zip = zp] :
     nm \in {Undef, Null, Str("Test"), Str("")},
     ad \in {Undef, Null, Str("1 Main St")},
     ci \in {Undef, Str("Miami")},
     st \in {Undef, Str("FL")},
     zp \in {Undef, Str("33101")}}

StatusProps ==
  {[BaseProps EXCEPT !.shelter_status = st, !.total_population = tp] :
     st \in {Undef, Null, Str("OPEN"), Str("CLOSED"), Str("open"),
             Str("FULL"), Num(1), Obj},
     tp \in {Undef, Null, Num(12), Num(0), Str("12"), Obj}}

AccessProps ==
  {[BaseProps EXCEPT !.ada_compliant = ada, !.wheelchair_accessible = wh,
                     !.pet_accommodations_code = pet, !.shelter_id = id] :
     ada \in {Undef, Null, Str("YES"), Str("UNK")},
     wh \in {Undef, Str("NO")},
     pet \in {Undef, Null, Str("PETS")},
     id \in {Undef, Num(1)}}

LatLonProps ==
  {[BaseProps EXCEPT !.latitude = la, !.longitude = lo] :
     la \in {Undef, Null, Num(99)}, lo \in {Undef, Null, Num(99)}}

\* features for the per-record mapping: one aspect varies at a time
RecordFeatures ==
  {NullElement, NumberElement}
    \cup {Feature(g, p) : g \in Geometries, p \in {BaseProps, PropsUndef}}
    \cup {Feature(PointAt(-80, 25), p) :
            p \in TextProps \cup StatusProps \cup AccessProps \cup {PropsNull}}
    \cup {Feature(PointAt(x, y), p) :
            x \in {-80, 25}, y \in {-80, 25}, p \in LatLonProps}

\* features for the batch behaviour: kept, dropped and throwing elements
FeedFeatures ==
  {NullElement, NumberElement,
   Feature(GeomUndef, WithId(1)),
   Feature(GeomObj(Str("Polygon"), Arr(<<Obj>>)), WithId(2)),
   Feature(PointAt(-80, 25), WithId(1)),
   Feature(PointAt(25, -80), WithId(2)),
   Feature(PointAt(-80, 25), WithId(3)),
   Feature(GeomObj(Str("Point"), Arr(<<Null, Num(25)>>)), WithId(3)),
   Feature(GeomObj(Str("Point"), Arr(<<Num(-80)>>)), WithId(2)),
   Feature(PointAt(25, 25), PropsUndef)}

SeqsUpTo(S, n) == UNION {[1..k -> S] : k \in 0..n}

FeatureArrays ==
  SeqsUpTo(FeedFeatures, MaxFeatures) \cup SeqsUpTo(RecordFeatures, MaxRecordFeatures)

\* payloads without a features array
BadPayloads ==
  {PrimitivePayload("null"), PrimitivePayload("number"),
   PrimitivePayload("string"), PrimitivePayload("array")}
    \cup {Payload(NoArr(v)) :
            v \in {Undef, Null, Str("x"), Str(""), Num(0), Num(3), Obj}}

Payloads == BadPayloads \cup {Payload(Arr(fs)) : fs \in FeatureArrays}

StatusTexts == {"Not Found", "Service Unavailable", ""}

OneFeature == Payload(Arr(<<Feature(PointAt(-80, 25), BaseProps)>>))

\* bodies that are not JSON
TextBodies == {TextBody(raw) : raw \in {"not json", "", "{\"features\":["}}

\* a failed status carries any body; the body of a success is any payload
Responses ==
  {Response(FALSE, text, body) :
     text \in StatusTexts,
     body \in TextBodies \cup {JsonBody(OneFeature), JsonBody(PrimitivePayload("null"))}}
    \cup {Response(TRUE, "OK", body) : body \in TextBodies}
    \cup {Response(TRUE, "OK", JsonBody(json)) : json \in Payloads}

\* the wall clock when the pass starts: one millisecond before midnight of
\* 1970-01-25 UTC
ClockStart == 24 * 86400000 - 1

ClockReadings == {ClockStart + k : k \in 0..MaxClock}

\* the readings of the clock over one pass: it never runs backwards
Clocks(n) ==
  {c \in [1..n -> ClockReadings] : \A i \in 1..n : \A j \in i..n : c[i] <= c[j]}

(***************************************************************************)
(* The call, step by step.  pc is the position inside fetchFEMAShelters.   *)
(***************************************************************************)
Init ==
  /\ pc = "idle"
  /\ requests = 0
  /\ res = NoResponse
  /\ bodyUsed = FALSE
  /\ geojson = PrimitivePayload("undefined")
  /\ filtered = <<>>
  /\ mapped = <<>>
  /\ result = <<>>
  /\ err = NoError

\* fetch(ARCGIS_SHELTERS_URL): the request is issued and the call suspends
\* on the await
CallFetch ==
  /\ pc = "idle"
  /\ requests' = requests + 1
  /\ pc' = "awaitFetch"
  /\ UNCHANGED <<res, bodyUsed, geojson, filtered, mapped, result, err>>

\* const res = await ...: the endpoint answers and the call resumes
FetchResolves ==
  /\ pc = "awaitFetch"
  /\ \E r \in Responses : res' = r
  /\ pc' = "fetched"
  /\ UNCHANGED <<requests, bodyUsed, geojson, filtered, mapped, result, err>>

\* await fetch(...) rejects: no response, the rejection propagates
FetchRejects ==
  /\ pc = "awaitFetch"
  /\ err' = NetworkError
  /\ pc' = "failed"
  /\ UNCHANGED <<requests, res, bodyUsed, geojson, filtered, mapped, result>>

\* if (!res.ok) throw ...
CheckOk ==
  /\ pc = "fetched"
  /\ IF NotOk(res)
     THEN pc' = "failed" /\ err' = FetchError(res)
     ELSE pc' = "ok" /\ err' = err
  /\ UNCHANGED <<requests, res, bodyUsed, geojson, filtered, mapped, result>>

\* res.json(): the body is marked used at once and the call suspends on
\* the await
CallJson ==
  /\ pc = "ok"
  /\ bodyUsed' = TRUE
  /\ pc' = "awaitJson"
  /\ UNCHANGED <<requests, res, geojson, filtered, mapped, result, err>>

\* const geojson = await ...: the parse settles and the call resumes
JsonSettles ==
  /\ pc = "awaitJson"
  /\ IF res.body.valid
     THEN pc' = "parsed" /\ geojson' = res.body.json /\ err' = err
     ELSE pc' = "failed" /\ err' = ParseError(res.body) /\ geojson' = geojson
  /\ UNCHANGED <<requests, res, bodyUsed, filtered, mapped, result>>

\* if (!geojson?.features || !Array.isArray(geojson.features)) throw ...
Validate ==
  /\ pc = "parsed"
  /\ IF InvalidGeoJSON(geojson)
     THEN pc' = "failed" /\ err' = InvalidFormatError
     ELSE pc' = "validated" /\ err' = err
  /\ UNCHANGED <<requests, res, bodyUsed, geojson, filtered, mapped, result>>

\* geojson.features.filter((f) => f.geometry?.type === 'Point')
FilterPoint ==
  /\ pc = "validated"
  /\ IF FilterThrows(geojson.features.a)
     THEN pc' = "failed" /\ err' = NullElementError /\ filtered' = filtered
     ELSE pc' = "filtered" /\ err' = err
          /\ filtered' = PointFeatures(geojson.features.a)
  /\ UNCHANGED <<requests, res, bodyUsed, geojson, mapped, result>>

\* .map((f) => ...)
MapStep ==
  /\ pc = "filtered"
  /\ \E clock \in Clocks(Len(filtered)) : mapped' = MapShelters(filtered, clock)
  /\ pc' = "mapped"
  /\ UNCHANGED <<requests, res, bodyUsed, geojson, filtered, result, err>>

\* .filter(Boolean), and the return
Return ==
  /\ pc = "mapped"
  /\ result' = Compact(mapped)
  /\ pc' = "done"
  /\ UNCHANGED <<requests, res, bodyUsed, geojson, filtered, mapped, err>>

Next ==
  \/ CallFetch
  \/ FetchResolves
  \/ FetchRejects
  \/ CheckOk
  \/ CallJson
  \/ JsonSettles
  \/ Validate
  \/ FilterPoint
  \/ MapStep
  \/ Return

Spec == Init /\ [][Next]_vars

(***************************************************************************)
(* Vocabulary of the properties.  These read the input as the              *)
(* specification describes it; none of them is used by the actions.        *)
(***************************************************************************)
\* the features array of the payload, once it has been validated
In == geojson.features.a

Returned == pc = "done"

\* the feature has a geometry object whose type is the string "Point"
HasPointGeometry(f) ==
  /\ f.t = "object"
  /\ f.geometry.t = "object"
  /\ f.geometry.type = Str("Point")

\* ... and its coordinates are a sequence of exactly two members
HasCoordinatePair(f) ==
  /\ HasPointGeometry(f)
  /\ f.geometry.coordinates.t = "array"
  /\ Len(f.geometry.coordinates.a) = 2

\* ... both of which are numbers
HasNumericPair(f) ==
  /\ HasCoordinatePair(f)
  /\ \A k \in 1..2 : f.geometry.coordinates.a[k].t = "number"

\* the source value of a property; undefined when there is no properties object
Source(f, name) ==
  IF f.t = "object" /\ f.properties.t = "object" THEN f.properties[name] ELSE Undef

\* absent: missing, or the explicit absent-marker null
Absent(v) == v.t \in {"undefined", "null"}

\* feature i is the only one of the input with its shelter_id, so the
\* records derived from it are the records carrying that shelter_id
Traceable(i) ==
  \A j \in 1..Len(In) : j # i => Source(In[j], "shelter_id") # Source(In[i], "shelter_id")

RecordsOf(i) ==
  {k \in 1..Len(result) : result[k].shelter_id = Source(In[i], "shelter_id")}

Defaulted(v, d) == IF Absent(v) THEN d ELSE v

(***************************************************************************)
(* C1.  Every returned record has a latitude and a longitude that are both *)
(* numbers: a feature whose coordinates have a member that is not a number *)
(* produces no record.  (Violated: the code checks the length of the       *)
(* coordinates only, never the type of the members.)                       *)
(***************************************************************************)
C1_CoordinatesAreNumbers ==
  Returned =>
    \A k \in 1..Len(result) :
      result[k].latitude.t = "number" /\ result[k].longitude.t = "number"

(***************************************************************************)
(* C2.  Once the status check, the JSON parse and the features check have  *)
(* passed, the call never fails, whatever the elements of features are.    *)
(* (Violated: the filter callback reads f.geometry of a null element.)     *)
(***************************************************************************)
C2_NeverFailsAfterValidation ==
  [][(pc \in {"validated", "filtered", "mapped"}) => (pc' # "failed")]_vars

(***************************************************************************)
(* C3.  For every feature with Point geometry and a two-element numeric    *)
(* coordinate pair, the record derived from it exists and has latitude     *)
(* coordinates[1] and longitude coordinates[0], whatever properties        *)
(* latitude / longitude hold.                                              *)
(***************************************************************************)
C3_OrderSwap ==
  Returned =>
    \A i \in 1..Len(In) :
      (HasNumericPair(In[i]) /\ Traceable(i)) =>
        /\ RecordsOf(i) # {}
        /\ \A k \in RecordsOf(i) :
             /\ result[k].latitude = In[i].geometry.coordinates.a[2]
             /\ result[k].longitude = In[i].geometry.coordinates.a[1]

C3_Witness ==
  /\ Returned
  /\ Len(In) = 1
  /\ HasNumericPair(In[1])
  /\ In[1].geometry.coordinates.a[1] # In[1].geometry.coordinates.a[2]
  /\ Source(In[1], "latitude") = Num(99)
  /\ Source(In[1], "longitude") = Null
  /\ Len(result) = 1
  /\ result[1].latitude = In[1].geometry.coordinates.a[2]

(***************************************************************************)
(* C4.  A feature whose geometry is missing or whose geometry type is not  *)
(* "Point" yields no record, and raises no error: a call whose features    *)
(* are all objects does not fail once the payload is validated.            *)
(***************************************************************************)
C4_NonPointDropped ==
  /\ Returned =>
       \A i \in 1..Len(In) :
         (In[i].t = "object" /\ ~HasPointGeometry(In[i]) /\ Traceable(i))
           => RecordsOf(i) = {}
  /\ (/\ bodyUsed
      /\ res.body.valid
      /\ res.body.json.t = "object"
      /\ res.body.json.features.t = "array"
      /\ \A i \in 1..Len(res.body.json.features.a) :
           res.body.json.features.a[i].t = "object")
       => pc # "failed"

C4_Witness ==
  /\ Returned
  /\ Len(In) = 2
  /\ In[1].geometry.type = Str("Polygon")
  /\ In[2].geometry.t = "undefined"
  /\ Traceable(1)
  /\ Source(In[1], "shelter_id") = Num(2)
  /\ result = <<>>

(***************************************************************************)
(* C5.  A parsed payload without a features sequence makes the call fail   *)
(* with the invalid-format error, which differs from the transport error,  *)
(* before any feature is filtered or mapped, and no record is returned.    *)
(***************************************************************************)
LacksFeaturesSequence(json) == json.t # "object" \/ json.features.t # "array"

C5_InvalidFormat ==
  (bodyUsed /\ res.body.valid /\ LacksFeaturesSequence(res.body.json)) =>
    /\ pc \in {"awaitJson", "parsed", "failed"}
    /\ pc = "failed" =>
         /\ err.name = "Error"
         /\ err.message = <<"Invalid GeoJSON response from ArcGIS">>
         /\ err # FetchError(res)
         /\ err # NetworkError
    /\ filtered = <<>>
    /\ mapped = <<>>
    /\ result = <<>>

C5_Witness ==
  /\ pc = "failed"
  /\ err = InvalidFormatError
  /\ geojson.t = "object"
  /\ geojson.features.t = "object"

(***************************************************************************)
(* C6.  A response with a non-success status makes the call fail with the  *)
(* fetch error whose message includes the status text; the body is neither *)
(* parsed nor validated, nothing is returned, and the one request of the   *)
(* call stays the only one.                                                *)
(***************************************************************************)
C6_FetchError ==
  /\ requests <= 1
  /\ (pc \notin {"idle", "awaitFetch", "fetched"} /\ err # NetworkError /\ ~res.ok) =>
       /\ pc = "failed"
       /\ err.name = "Error"
       /\ err.message[1] = "Failed to fetch FEMA shelters: "
       /\ \E k \in 1..Len(err.message) : err.message[k] = res.statusText
       /\ err # InvalidFormatError
       /\ ~bodyUsed
       /\ geojson = PrimitivePayload("undefined")
       /\ result = <<>>
       /\ requests = 1

C6_Witness ==
  /\ pc = "failed"
  /\ ~res.ok
  /\ res.statusText = "Not Found"
  /\ res.body.valid
  /\ res.body.json = OneFeature
  /\ err.message = <<"Failed to fetch FEMA shelters: ", "Not Found">>

(***************************************************************************)
(* C7.  The status of every record is OPEN, CLOSED or UNKNOWN: OPEN iff    *)
(* the source shelter_status is the string "OPEN", CLOSED iff it is the    *)
(* string "CLOSED", UNKNOWN for every other value.                         *)
(***************************************************************************)
C7_Status ==
  Returned =>
    /\ \A k \in 1..Len(result) :
         result[k].status \in {Str("OPEN"), Str("CLOSED"), Str("UNKNOWN")}
    /\ \A i \in 1..Len(In) :
         Traceable(i) =>
           \A k \in RecordsOf(i) :
             LET src == Source(In[i], "shelter_status")
             IN /\ result[k].status = Str("OPEN") <=> src = Str("OPEN")
                /\ result[k].status = Str("CLOSED") <=> src = Str("CLOSED")
                /\ result[k].status = Str("UNKNOWN")
                     <=> src \notin {Str("OPEN"), Str("CLOSED")}

C7_Witness ==
  /\ Returned
  /\ Len(In) = 1
  /\ Source(In[1], "shelter_status") = Str("open")
  /\ Len(result) = 1
  /\ result[1].status = Str("UNKNOWN")

(***************************************************************************)
(* C8.  The total_population of every record is a number or null: the      *)
(* source value when that is a number, null when it is a string, an        *)
(* object, null or missing.                                                *)
(***************************************************************************)
C8_TotalPopulation ==
  Returned =>
    /\ \A k \in 1..Len(result) :
         result[k].total_population.t \in {"number", "null"}
    /\ \A i \in 1..Len(In) :
         Traceable(i) =>
           \A k \in RecordsOf(i) :
             LET src == Source(In[i], "total_population")
             IN IF src.t = "number"
                THEN result[k].total_population = src
                ELSE result[k].total_population = Null

C8_Witness ==
  /\ Returned
  /\ Len(In) = 1
  /\ Source(In[1], "total_population") = Str("12")
  /\ Len(result) = 1
  /\ result[1].total_population = Null

(***************************************************************************)
(* C9.  The returned records are, in order and one for one, the features   *)
(* with Point geometry and a two-element coordinate pair; so there are     *)
(* never more records than features.                                       *)
(***************************************************************************)
C9_OrderPreserved ==
  Returned =>
    LET kept == SelectSeq(In, HasCoordinatePair)
    IN /\ Len(result) = Len(kept)
       /\ Len(result) <= Len(In)
       /\ \A k \in 1..Len(kept) :
            /\ result[k].t = "object"
            /\ result[k].shelter_id = Source(kept[k], "shelter_id")
            /\ result[k].longitude = kept[k].geometry.coordinates.a[1]
            /\ result[k].latitude = kept[k].geometry.coordinates.a[2]

C9_Witness ==
  /\ Returned
  /\ Len(In) = 3
  /\ HasCoordinatePair(In[1])
  /\ ~HasCoordinatePair(In[2])
  /\ HasCoordinatePair(In[3])
  /\ Len(result) = 2
  /\ result[1].shelter_id = Num(2)
  /\ result[2].shelter_id = Num(1)

(***************************************************************************)
(* C10.  Text fields follow the default rule: name is the source           *)
(* shelter_name, or "Unknown Shelter" when absent; address, city, state    *)
(* and zip are the source value, or "" when absent.  A kept feature        *)
(* without a properties object still yields a record, with every default,  *)
(* status UNKNOWN and total_population null.                               *)
(***************************************************************************)
C10_Defaults ==
  Returned =>
    \A i \in 1..Len(In) :
      Traceable(i) =>
        /\ \A k \in RecordsOf(i) :
             /\ result[k].name
                  = Defaulted(Source(In[i], "shelter_name"), Str("Unknown Shelter"))
             /\ \A field \in {"address", "city", "state", "zip"} :
                  result[k][field] = Defaulted(Source(In[i], field), Str(""))
        /\ (HasCoordinatePair(In[i]) /\ Absent(In[i].properties)) =>
             /\ RecordsOf(i) # {}
             /\ \A k \in RecordsOf(i) :
                  /\ result[k].name = Str("Unknown Shelter")
                  /\ result[k].address = Str("")
                  /\ result[k].city = Str("")
                  /\ result[k].state = Str("")
                  /\ result[k].zip = Str("")
                  /\ result[k].status = Str("UNKNOWN")
                  /\ result[k].total_population = Null

C10_Witness ==
  /\ Returned
  /\ Len(In) = 2
  /\ In[1].properties.t = "undefined"
  /\ HasCoordinatePair(In[1])
  /\ Source(In[2], "shelter_id") = Num(1)
  /\ Len(result) = 2
  /\ result[1].name = Str("Unknown Shelter")
  /\ result[1].zip = Str("")
  /\ result[2].name = Str("Test")
====
